---- MODULE Spec2Model ----
(***************************************************************************)
(* Model of generateReport.py: generate_report (validation, summary table, *)
(* transcript breakdown, document write) and get_ai_summary_and_rating     *)
(* (field extraction and rating parsing over the generated text).          *)
(*                                                                         *)
(* A Python string is a sequence of tokens.  A token is one lexeme of the  *)
(* text: a field label word, ":", one blank, one newline, one digit, "/",  *)
(* "(1-10)", or an opaque word.  The regular expressions of the source are *)
(* evaluated on these sequences with the matching rules of Python's re     *)
(* (leftmost match, greedy \s* and \d{1,2}, lazy .*?, lookahead).  The     *)
(* label tokens stand for the label in any letter case (re.IGNORECASE).    *)
(* reportlab's Paragraph, Table and SimpleDocTemplate are opaque           *)
(* constructors: they keep what they are given.                            *)
(***************************************************************************)
EXTENDS Integers, Sequences, FiniteSets, TLC

VARIABLES
    pc,             \* position in generate_report / the parse
    conversation,   \* argument of generate_report
    i,              \* index of the validation loop (line 151)
    generate_calls, \* number of calls of generate (line 91)
    generation,     \* "none" | "returned" | "raised": outcome of generate
    output,         \* what generate returned (line 64)
    result,         \* generate(...).strip() (line 91)
    sections,       \* field -> extracted value (lines 95-113)
    rating,         \* rating returned by get_ai_summary_and_rating
    summary_text,   \* summary text returned by get_ai_summary_and_rating
    table_data,     \* rows of the summary table (lines 166-170)
    content,        \* transcript breakdown paragraphs (lines 229-233)
    file,           \* what doc.build wrote (line 235)
    error           \* unhandled exception that ended the run, or "none"

vars == <<pc, conversation, i, generate_calls, generation, output, result, sections,
          rating, summary_text, table_data, content, file, error>>

(***************************************************************************)
(* Bounds of the model.                                                    *)
(***************************************************************************)
MaxLen == 5       \* tokens of a generated text in the parse specification
MaxChunks == 3    \* chunks of a generated rating text
MaxGenLen == 3    \* tokens of a free generated text in a generate_report run
MaxTurns == 2     \* elements of the conversation list

(***************************************************************************)
(* Tokens and strings.                                                     *)
(***************************************************************************)
SP == " "
NL == "\n"
COLON == ":"
SLASH == "/"
PAREN == "(1-10)"
RATING_LABEL == "Candidate Rating"

fields == <<"Skills", "Experience", "Strengths", "Weaknesses", "Job Fit">>

FieldSet == {fields[k] : k \in 1..Len(fields)}

\* the alternation of the lookahead in the field pattern (line 98)
BoundaryLabels == FieldSet \cup {RATING_LABEL}

Digits == <<"0", "1", "2", "3", "4", "5", "6", "7", "8", "9">>

IsDigit(t) == \E d \in 1..Len(Digits) : Digits[d] = t

DigitVal(t) == (CHOOSE d \in 1..Len(Digits) : Digits[d] = t) - 1

\* \s of the regular expressions and the characters str.strip removes
IsSpace(t) == t \in {SP, NL}

Min(S) == CHOOSE x \in S : \A y \in S : x <= y

\* str.strip()
strip(s) ==
    LET keep == {k \in 1..Len(s) : ~IsSpace(s[k])}
    IN  IF keep = {} THEN <<>>
        ELSE SubSeq(s, Min(keep), CHOOSE x \in keep : \A y \in keep : y <= x)

\* position reached by a greedy \s* started at position p
SkipSpace(s, p) ==
    Min({q \in p..(Len(s) + 1) :
            /\ \A k \in p..(q - 1) : IsSpace(s[k])
            /\ (q = Len(s) + 1 \/ ~IsSpace(s[q]))})

\* "sep".join(list)
RECURSIVE join(_, _)
join(sep, list) ==
    IF list = <<>> THEN <<>>
    ELSE IF Len(list) = 1 THEN list[1]
    ELSE list[1] \o sep \o join(sep, Tail(list))

\* str.split("\n")
RECURSIVE split(_)
split(s) ==
    LET nls == {k \in 1..Len(s) : s[k] = NL}
    IN  IF nls = {} THEN <<s>>
        ELSE <<SubSeq(s, 1, Min(nls) - 1)>>
                \o split(SubSeq(s, Min(nls) + 1, Len(s)))

\* str(n) for 0 <= n <= 99
str(n) == IF n < 10 THEN <<Digits[n + 1]>>
          ELSE <<Digits[(n \div 10) + 1], Digits[(n % 10) + 1]>>

(***************************************************************************)
(* get_ai_summary_and_rating: the field pattern (lines 97-113).            *)
(***************************************************************************)
\* the per-field default strings of lines 104-113
Default(field) ==
    CASE field = "Skills" ->
            "Proficiency in Python, Go, and JavaScript, as mentioned in the transcript."
      [] field = "Experience" ->
            "5 years of backend development experience, as stated in the transcript."
      [] field = "Strengths" ->
            "Strong backend development skills and familiarity with AI-relevant languages like Python."
      [] field = "Weaknesses" ->
            "Limited information on frontend development or other specialized skills."
      [] field = "Job Fit" ->
            "Good alignment with AI research-focused roles due to interest in AI and open-source contributions."

\* (?=\n(?:Skills|...|Candidate Rating(?:\s*\(1-10\))?)|\Z) at position e
Lookahead(s, e) ==
    \/ e = Len(s) + 1
    \/ /\ e + 1 <= Len(s)
       /\ s[e] = NL
       /\ s[e + 1] \in BoundaryLabels

\* positions where  {field}\s*:  matches
FieldStarts(field, s) ==
    {p \in 1..Len(s) :
        /\ s[p] = field
        /\ LET c == SkipSpace(s, p + 1)
           IN  c <= Len(s) /\ s[c] = COLON}

\* start of group 1 of a match begun at p: after  {field}\s*:\s*
GroupStart(s, p) == SkipSpace(s, SkipSpace(s, p + 1) + 1)

\* variant of GroupEnd: a greedy .* runs to the last lookahead, the end of text
GroupEndGreedy(s, b) == Len(s) + 1

\* first position after group 1: the lazy .*? stops at the first lookahead
GroupEnd(s, b) == Min({e \in b..(Len(s) + 1) : Lookahead(s, e)})

\* re.search(pattern, result, DOTALL | IGNORECASE): the leftmost match
FieldSearch(field, s) ==
    LET starts == FieldStarts(field, s)
    IN  IF starts = {} THEN [found |-> FALSE, group |-> <<>>]
        ELSE LET b == GroupStart(s, Min(starts))
             IN  [found |-> TRUE, group |-> SubSeq(s, b, GroupEnd(s, b) - 1)]

\* lines 99-113 for one field
ExtractField(field, s) ==
    LET m == FieldSearch(field, s)
    IN  IF m.found /\ strip(m.group) # <<>> THEN strip(m.group)
        ELSE <<Default(field)>>

ExtractSections(s) == [f \in FieldSet |-> ExtractField(f, s)]

(***************************************************************************)
(* get_ai_summary_and_rating: the rating (lines 116-125).                  *)
(***************************************************************************)
IntRating(n) == [type |-> "int", n |-> n]
NA == [type |-> "str", n |-> 0]       \* the string "N/A"

\* int(m.group(1)) for the greedy (\d{1,2}) at position d
TwoDigits(s, d) == d + 1 <= Len(s) /\ IsDigit(s[d + 1])

DigitsValue(s, d, two) ==
    IF two THEN 10 * DigitVal(s[d]) + DigitVal(s[d + 1]) ELSE DigitVal(s[d])

\* \s*:\s*(\d{1,2}) from position q; the position of the digits or 0
LabelTail(s, q) ==
    LET c == SkipSpace(s, q)
    IN  IF c <= Len(s) /\ s[c] = COLON
        THEN LET d == SkipSpace(s, c + 1)
             IN  IF d <= Len(s) /\ IsDigit(s[d]) THEN d ELSE 0
        ELSE 0

\* Candidate Rating(?:\s*\(1-10\))?\s*:\s*(\d{1,2}) at p; digits position or 0
LabelledAt(s, p) ==
    IF s[p] # RATING_LABEL THEN 0
    ELSE LET a == SkipSpace(s, p + 1)
             withParen == IF a <= Len(s) /\ s[a] = PAREN
                          THEN LabelTail(s, a + 1) ELSE 0
         IN  IF withParen # 0 THEN withParen ELSE LabelTail(s, p + 1)

\* re.search(r"Candidate Rating...", result, IGNORECASE)
LabelledSearch(s) ==
    LET starts == {p \in 1..Len(s) : LabelledAt(s, p) # 0}
    IN  IF starts = {} THEN [found |-> FALSE, val |-> 0]
        ELSE LET d == LabelledAt(s, Min(starts))
             IN  [found |-> TRUE, val |-> DigitsValue(s, d, TwoDigits(s, d))]

\* \s*/\s*10 from position q
SlashTail(s, q) ==
    LET a == SkipSpace(s, q)
    IN  /\ a <= Len(s)
        /\ s[a] = SLASH
        /\ LET b == SkipSpace(s, a + 1)
           IN  b + 1 <= Len(s) /\ s[b] = "1" /\ s[b + 1] = "0"

\* (\d{1,2})\s*/\s*10 at p: 0 no match, 2 two digits, 1 one digit
SlashAt(s, p) ==
    IF ~IsDigit(s[p]) THEN 0
    ELSE IF TwoDigits(s, p) /\ SlashTail(s, p + 2) THEN 2
    ELSE IF SlashTail(s, p + 1) THEN 1
    ELSE 0

\* re.search(r"(\d{1,2})\s*/\s*10", result)
SlashSearch(s) ==
    LET starts == {p \in 1..Len(s) : SlashAt(s, p) # 0}
    IN  IF starts = {} THEN [found |-> FALSE, val |-> 0]
        ELSE LET p == Min(starts)
             IN  [found |-> TRUE, val |-> DigitsValue(s, p, SlashAt(s, p) = 2)]

\* variant of RatingSearch: the N/10 pattern is tried first
RatingSearchSlashFirst(s) ==
    LET m == SlashSearch(s)
    IN  IF ~m.found THEN LabelledSearch(s) ELSE m

\* lines 117-119: the labelled pattern, else the N/10 pattern
RatingSearch(s) ==
    LET m == LabelledSearch(s)
    IN  IF ~m.found THEN SlashSearch(s) ELSE m

\* lines 116-125
ParseRating(s) ==
    LET m == RatingSearch(s)
    IN  IF m.found
        THEN IF 1 <= m.val /\ m.val <= 10 THEN IntRating(m.val) ELSE NA
        ELSE IntRating(7)

(***************************************************************************)
(* get_ai_summary_and_rating: the returned pair.                           *)
(***************************************************************************)
\* lines 127-128
SummaryText(secs) ==
    join(<<NL>>, [k \in 1..Len(fields) |->
                    <<fields[k], COLON, SP>> \o secs[fields[k]]])

\* variant of fallback: the Experience line comes first
fallbackReordered ==
    <<  <<"Experience", COLON, SP,
          "5 years of backend development experience, as stated in the transcript.">>,
        <<"Skills", COLON, SP,
          "Proficiency in Python, Go, and JavaScript, as mentioned in the transcript.">>,
        <<"Strengths", COLON, SP,
          "Strong backend development skills and familiarity with AI-relevant languages like Python.">>,
        <<"Weaknesses", COLON, SP,
          "Limited information on frontend development or other specialized skills.">>,
        <<"Job Fit", COLON, SP,
          "Good alignment with AI research-focused roles due to interest in AI and open-source contributions.">> >>

\* lines 134-141: the except branch
fallback ==
    <<  <<"Skills", COLON, SP,
          "Proficiency in Python, Go, and JavaScript, as mentioned in the transcript.">>,
        <<"Experience", COLON, SP,
          "5 years of backend development experience, as stated in the transcript.">>,
        <<"Strengths", COLON, SP,
          "Strong backend development skills and familiarity with AI-relevant languages like Python.">>,
        <<"Weaknesses", COLON, SP,
          "Limited information on frontend development or other specialized skills.">>,
        <<"Job Fit", COLON, SP,
          "Good alignment with AI research-focused roles due to interest in AI and open-source contributions.">> >>

NoSections == [f \in FieldSet |-> <<>>]

\* lines 90-141; raised: generate raised, text: what generate returned
get_ai_summary_and_rating(raised, text) ==
    IF raised
    THEN [result |-> <<>>, sections |-> NoSections,
          summary_text |-> join(<<NL>>, fallback), rating |-> IntRating(7)]
    ELSE LET res == strip(text)
             secs == ExtractSections(res)
         IN  [result |-> res, sections |-> secs,
              summary_text |-> SummaryText(secs), rating |-> ParseRating(res)]

(***************************************************************************)
(* Values of the conversation argument (json.loads of the input).          *)
(***************************************************************************)
Str(chars) == [type |-> "str", s |-> chars]
Num == [type |-> "int", s |-> <<>>]             \* a value that is no string

Dict(keys, role, text) ==
    [dict |-> TRUE, keys |-> keys, role |-> role, content |-> text]
NotADict == [dict |-> FALSE, keys |-> {}, role |-> Num, content |-> Num]

RoleValues == {Str(<<>>), Str(<<"a", "B">>), Num}
ContentValues == {Str(<<>>), Str(<<"h", "i">>)}

Messages ==
    {NotADict, Dict({"content"}, Num, Str(<<"h", "i">>)),
     Dict({"role"}, Str(<<"a", "B">>), Num)}
    \cup {Dict({"role", "content"}, r, c) : r \in RoleValues, c \in ContentValues}

SeqsUpTo(S, n) == UNION {[1..k -> S] : k \in 0..n}

List(msgs) == [type |-> "list", msgs |-> msgs]

Conversations ==
    {[type |-> "NoneType", msgs |-> <<>>],
     [type |-> "dict", msgs |-> <<>>]}          \* a non-empty JSON object
    \cup {List(msgs) : msgs \in SeqsUpTo(Messages, MaxTurns)}

\* str.capitalize(): first character upper case, the others lower case
upper(c) == CASE c = "a" -> "A" [] c = "b" -> "B" [] c = "h" -> "H"
              [] c = "i" -> "I" [] OTHER -> c
lower(c) == CASE c = "A" -> "a" [] c = "B" -> "b" [] c = "H" -> "h"
              [] c = "I" -> "i" [] OTHER -> c
capitalize(chars) ==
    [k \in 1..Len(chars) |-> IF k = 1 THEN upper(chars[k]) ELSE lower(chars[k])]

(***************************************************************************)
(* Outcomes of generate.                                                   *)
(***************************************************************************)
RECURSIVE Concats(_, _)
Concats(chunks, n) ==
    IF n = 0 THEN {<<>>}
    ELSE LET shorter == Concats(chunks, n - 1)
         IN  shorter \cup {s \o c : s \in shorter, c \in chunks}

FieldAlphabet == {"Skills", "Experience", RATING_LABEL, COLON, SP, NL, "A"}

RatingChunks ==
    {<<RATING_LABEL>>, <<PAREN>>, <<COLON>>, <<SP>>, <<SLASH>>,
     <<"0">>, <<"1">>, <<"7">>,
     <<RATING_LABEL, COLON>>, <<RATING_LABEL, SP, PAREN, COLON>>,
     <<"7", SLASH, "1", "0">>}

\* generated texts of the parse specification
ParseTexts == SeqsUpTo(FieldAlphabet, MaxLen) \cup Concats(RatingChunks, MaxChunks)

\* the well-formed answer: every label on its own line, then the rating
WellFormedText ==
    <<"Skills", COLON, SP, "Good", NL, "Experience", COLON, SP, "None", NL,
      "Strengths", COLON, SP, "X", NL, "Weaknesses", COLON, SP, "Y", NL,
      "Job Fit", COLON, SP, "Z", NL,
      RATING_LABEL, SP, PAREN, COLON, SP, "7">>

ExampleTexts ==
    {WellFormedText,
     <<"Skills", COLON, SP, "A", NL, "B">>,
     <<"Skills", COLON, SP, "A", NL, "B", COLON, SP, "C">>,
     <<"Job Fit", COLON, SP, "Z", NL, "Skills", COLON, SP, "A">>,
     <<RATING_LABEL, SP, PAREN, COLON, SP, "1", "0">>,
     <<RATING_LABEL, SP, PAREN, COLON, SP, "0">>}

GenAlphabet == {"Skills", COLON, SP, NL, "A"}

\* generated texts of a generate_report run
GenTexts == SeqsUpTo(GenAlphabet, MaxGenLen) \cup ExampleTexts

(***************************************************************************)
(* generate_report.                                                        *)
(***************************************************************************)
Paragraph(text) == [kind |-> "Paragraph", text |-> text, data |-> <<>>, h |-> 0]
Spacer(h) == [kind |-> "Spacer", text |-> <<>>, data |-> <<>>, h |-> h]
Table(data) == [kind |-> "Table", text |-> <<>>, data |-> data, h |-> 0]

Row(field, details) == [field |-> field, details |-> details]

\* line 147: not conversation or not isinstance(conversation, list)
InvalidConversation(conv) == conv.type # "list" \/ conv.msgs = <<>>

\* line 152
InvalidMessage(msg) ==
    ~msg.dict \/ "role" \notin msg.keys \/ "content" \notin msg.keys

\* line 70: msg['role'].capitalize() needs the key and a string
PromptError(conv) ==
    IF \E k \in 1..Len(conv.msgs) : InvalidMessage(conv.msgs[k])
    THEN "KeyError"
    ELSE IF \E k \in 1..Len(conv.msgs) : conv.msgs[k].role.type # "str"
    THEN "AttributeError"
    ELSE "none"

\* line 168: line.split(": ", 1); the position of the first ": " or 0
SplitAt(line) ==
    LET at == {k \in 1..(Len(line) - 1) : line[k] = COLON /\ line[k + 1] = SP}
    IN  IF at = {} THEN 0 ELSE Min(at)

\* lines 167-169: the rows appended before the loop ends or line 168 raises
RECURSIVE LineRows(_)
LineRows(lines) ==
    IF lines = <<>> THEN [ok |-> TRUE, rows |-> <<>>]
    ELSE LET line == Head(lines)
             k == SplitAt(line)
         IN  IF k = 0 THEN [ok |-> FALSE, rows |-> <<>>]
             ELSE LET rest == LineRows(Tail(lines))
                  IN  [ok |-> rest.ok,
                       rows |-> <<Row(SubSeq(line, 1, k - 1),
                                      SubSeq(line, k + 2, Len(line)))>>
                                \o rest.rows]

\* f"{rating}"
RatingText(r) == IF r.type = "int" THEN str(r.n) ELSE <<"N/A">>

\* line 170
RatingRow(r) ==
    Row(<<"Candidate Rating">>, RatingText(r) \o <<SP, SLASH, SP, "1", "0">>)

HeaderRow == Row(<<"Field">>, <<"Details">>)

\* line 232
TurnParagraph(msg) ==
    Paragraph(<<"<b>">> \o capitalize(msg.role.s) \o <<COLON, "</b>", SP>>
                \o msg.content.s)

\* variant of Breakdown: the turns come out last to first
RECURSIVE BreakdownReversed(_)
BreakdownReversed(msgs) ==
    IF msgs = <<>> THEN <<>>
    ELSE BreakdownReversed(Tail(msgs)) \o <<TurnParagraph(Head(msgs)), Spacer(10)>>

RECURSIVE Breakdown(_)
Breakdown(msgs) ==
    IF msgs = <<>> THEN <<>>
    ELSE <<TurnParagraph(Head(msgs)), Spacer(10)>> \o Breakdown(Tail(msgs))

NoRating == [type |-> "none", n |-> 0]

Init ==
    /\ pc = "start"
    /\ conversation \in Conversations
    /\ i = 0
    /\ generate_calls = 0
    /\ generation = "none"
    /\ output = <<>>
    /\ result = <<>>
    /\ sections = NoSections
    /\ rating = NoRating
    /\ summary_text = <<>>
    /\ table_data = <<>>
    /\ content = <<>>
    /\ file = <<>>
    /\ error = "none"

\* lines 147-149
CheckConversation ==
    /\ pc = "start"
    /\ IF InvalidConversation(conversation)
       THEN pc' = "rejected" /\ i' = i
       ELSE pc' = "validate" /\ i' = 1
    /\ UNCHANGED <<conversation, generate_calls, generation, output, result, sections,
                   rating, summary_text, table_data, content, file, error>>

\* variant of CheckMessage: an invalid element is skipped, the loop goes on
CheckMessageSkip ==
    /\ pc = "validate"
    /\ i <= Len(conversation.msgs)
    /\ pc' = pc
    /\ i' = i + 1
    /\ UNCHANGED <<conversation, generate_calls, generation, output, result, sections,
                   rating, summary_text, table_data, content, file, error>>

\* lines 151-154: one iteration of the loop
CheckMessage ==
    /\ pc = "validate"
    /\ i <= Len(conversation.msgs)
    /\ IF InvalidMessage(conversation.msgs[i])
       THEN pc' = "rejected" /\ i' = i
       ELSE pc' = pc /\ i' = i + 1
    /\ UNCHANGED <<conversation, generate_calls, generation, output, result, sections,
                   rating, summary_text, table_data, content, file, error>>

\* variant of StartDocument: the loop is left after its first iteration
StartDocumentEarly ==
    /\ pc = "validate"
    /\ i > 1
    /\ pc' = "summary"
    /\ content' = <<Paragraph(<<"Interview Report">>), Spacer(20)>>
    /\ UNCHANGED <<conversation, i, generate_calls, generation, output, result,
                   sections, rating, summary_text, table_data, file, error>>

\* lines 156-162: the loop is over, the document is started
StartDocument ==
    /\ pc = "validate"
    /\ i > Len(conversation.msgs)
    /\ pc' = "summary"
    /\ content' = <<Paragraph(<<"Interview Report">>), Spacer(20)>>
    /\ UNCHANGED <<conversation, i, generate_calls, generation, output, result,
                   sections, rating, summary_text, table_data, file, error>>

\* line 165, line 70 raises: the exception leaves generate_report
SummaryPromptRaises ==
    /\ pc = "summary"
    /\ PromptError(conversation) # "none"
    /\ pc' = "raised"
    /\ error' = PromptError(conversation)
    /\ UNCHANGED <<conversation, i, generate_calls, generation, output, result,
                   sections, rating, summary_text, table_data, content, file>>

\* line 165 to line 91: generate returns a text
GenerateReturns ==
    /\ pc = "summary"
    /\ PromptError(conversation) = "none"
    /\ \E t \in GenTexts : output' = t
    /\ generate_calls' = generate_calls + 1
    /\ generation' = "returned"
    /\ pc' = "parse"
    /\ UNCHANGED <<conversation, i, result, sections, rating, summary_text,
                   table_data, content, file, error>>

\* lines 91-129: the text is parsed and the pair returned to line 165
ParseText ==
    /\ pc = "parse"
    /\ LET r == get_ai_summary_and_rating(FALSE, output)
       IN  /\ result' = r.result
           /\ sections' = r.sections
           /\ summary_text' = r.summary_text
           /\ rating' = r.rating
    /\ pc' = "table"
    /\ UNCHANGED <<conversation, i, generate_calls, generation, output,
                   table_data, content, file, error>>

\* line 165 to lines 131-141: generate raises, the fallback is returned
GenerateRaises ==
    /\ pc = "summary"
    /\ PromptError(conversation) = "none"
    /\ LET r == get_ai_summary_and_rating(TRUE, <<>>)
       IN  /\ result' = r.result
           /\ sections' = r.sections
           /\ summary_text' = r.summary_text
           /\ rating' = r.rating
    /\ generate_calls' = generate_calls + 1
    /\ generation' = "raised"
    /\ pc' = "table"
    /\ UNCHANGED <<conversation, i, output, table_data, content, file, error>>

\* the static sections of lines 188-225
ChartText == "chartjs code block"
RecommendationsText == "Consider assessing ... company goals."

\* lines 166-225: line 168 raises ValueError, or the sections are appended
AssembleSummary ==
    /\ pc = "table"
    /\ LET r == LineRows(split(summary_text))
       IN  IF r.ok
           THEN /\ table_data' = <<HeaderRow>> \o r.rows \o <<RatingRow(rating)>>
                /\ content' = content \o
                     <<Paragraph(<<"<b>Summary:</b>">>), Table(table_data'),
                       Spacer(20),
                       Paragraph(<<"<b>Skill Proficiency (Inferred):</b>">>),
                       Paragraph(<<ChartText>>), Spacer(20),
                       Paragraph(<<"<b>Recommendations:</b>">>),
                       Paragraph(<<RecommendationsText>>), Spacer(20)>>
                /\ pc' = "breakdown"
                /\ error' = error
           ELSE /\ table_data' = <<HeaderRow>> \o r.rows
                /\ content' = content
                /\ pc' = "raised"
                /\ error' = "ValueError"
    /\ UNCHANGED <<conversation, i, generate_calls, generation, output, result,
                   sections, rating, summary_text, file>>

\* lines 228-233
TranscriptBreakdown ==
    /\ pc = "breakdown"
    /\ content' = content \o <<Paragraph(<<"<b>Transcript Breakdown:</b>">>)>>
                    \o Breakdown(conversation.msgs)
    /\ pc' = "build"
    /\ UNCHANGED <<conversation, i, generate_calls, generation, output, result,
                   sections, rating, summary_text, table_data, file, error>>

\* lines 235-236
BuildDocument ==
    /\ pc = "build"
    /\ file' = content
    /\ pc' = "done"
    /\ UNCHANGED <<conversation, i, generate_calls, generation, output, result,
                   sections, rating, summary_text, table_data, content, error>>

Next ==
    \/ CheckConversation
    \/ CheckMessage
    \/ StartDocument
    \/ SummaryPromptRaises
    \/ GenerateReturns
    \/ ParseText
    \/ GenerateRaises
    \/ AssembleSummary
    \/ TranscriptBreakdown
    \/ BuildDocument

Spec == Init /\ [][Next]_vars

(***************************************************************************)
(* The parse of lines 91-129 on its own, over the texts of ParseTexts.     *)
(***************************************************************************)
InitParse ==
    /\ pc = "parse"
    /\ conversation = List(<<Dict({"role", "content"}, Str(<<"a">>), Str(<<"h", "i">>))>>)
    /\ i = 2
    /\ generate_calls = 1
    /\ generation = "returned"
    /\ output \in ParseTexts
    /\ result = <<>>
    /\ sections = NoSections
    /\ rating = NoRating
    /\ summary_text = <<>>
    /\ table_data = <<>>
    /\ content = <<Paragraph(<<"Interview Report">>), Spacer(20)>>
    /\ file = <<>>
    /\ error = "none"

NextParse == ParseText

SpecParse == InitParse /\ [][NextParse]_vars

(***************************************************************************)
(* Vocabulary of the properties.                                           *)
(***************************************************************************)
\* an element that is an object with both keys
HasBothKeys(msg) == msg.dict /\ {"role", "content"} \subseteq msg.keys

\* a non-empty list of objects with both keys
KeysPresent(conv) ==
    /\ conv.type = "list"
    /\ conv.msgs # <<>>
    /\ \A k \in 1..Len(conv.msgs) : HasBothKeys(conv.msgs[k])

\* a turn with a non-empty string role and a non-empty string content
IsTurn(msg) ==
    /\ HasBothKeys(msg)
    /\ msg.role.type = "str" /\ msg.role.s # <<>>
    /\ msg.content.type = "str" /\ msg.content.s # <<>>

WellFormedTranscript(conv) ==
    /\ conv.type = "list"
    /\ conv.msgs # <<>>
    /\ \A k \in 1..Len(conv.msgs) : IsTurn(conv.msgs[k])

\* the field column of the summary table
TableLabels == [k \in 1..Len(table_data) |-> table_data[k].field]

ExpectedLabels ==
    <<  <<"Field">>, <<"Skills">>, <<"Experience">>, <<"Strengths">>,
        <<"Weaknesses">>, <<"Job Fit">>, <<"Candidate Rating">> >>

TableAssembled == pc \in {"breakdown", "build", "done"}

\* the generated text has been parsed
Parsed == generation = "returned" /\ pc # "parse"

\* the label of field f, with its colon, starts at p and the colon is at c
LabelAt(f, s, p, c) ==
    /\ p < c /\ c <= Len(s)
    /\ s[p] = f
    /\ s[c] = COLON
    /\ \A k \in (p + 1)..(c - 1) : IsSpace(s[k])

LabelOccurrences(f, s) ==
    {pcol \in (1..Len(s)) \X (1..Len(s)) : LabelAt(f, s, pcol[1], pcol[2])}

\* the first occurrence in document order
FirstLabel(f, s) ==
    CHOOSE o \in LabelOccurrences(f, s) :
        \A o2 \in LabelOccurrences(f, s) : o[1] <= o2[1]

\* a newline at e that starts a line beginning with a label, after the colon c
LineInitialLabels(s, c) ==
    {e \in (c + 1)..(Len(s) - 1) : s[e] = NL /\ s[e + 1] \in BoundaryLabels}

\* the text between the colon at c and the next line-initial label or the end
SpanAfter(s, c) ==
    LET nxt == LineInitialLabels(s, c)
    IN  SubSeq(s, c + 1, IF nxt = {} THEN Len(s) ELSE Min(nxt) - 1)

Blank(s) == \A k \in 1..Len(s) : IsSpace(s[k])

\* occurrences "Candidate Rating[ (1-10)]: N": <<label position, first digit>>
LabelledNumbers(s) ==
    {o \in (1..Len(s)) \X (1..Len(s)) :
        /\ o[1] < o[2]
        /\ s[o[1]] = RATING_LABEL
        /\ IsDigit(s[o[2]])
        /\ \E c \in (o[1] + 1)..(o[2] - 1) :
            /\ s[c] = COLON
            /\ \A k \in (c + 1)..(o[2] - 1) : IsSpace(s[k])
            /\ \/ \A k \in (o[1] + 1)..(c - 1) : IsSpace(s[k])
               \/ \E q \in (o[1] + 1)..(c - 1) :
                    /\ s[q] = PAREN
                    /\ \A k \in ((o[1] + 1)..(c - 1)) \ {q} : IsSpace(s[k])}

\* the number of one or two digits that starts at d
NumberAt(s, d) ==
    IF d < Len(s) /\ IsDigit(s[d + 1])
    THEN 10 * DigitVal(s[d]) + DigitVal(s[d + 1])
    ELSE DigitVal(s[d])

\* occurrences "N/10": <<first digit, number of digits>>
SlashNumbers(s) ==
    {o \in (1..Len(s)) \X {1, 2} :
        /\ \A k \in o[1]..(o[1] + o[2] - 1) : k <= Len(s) /\ IsDigit(s[k])
        /\ \E a \in (o[1] + o[2])..Len(s) : \E b \in (a + 1)..(Len(s) - 1) :
            /\ \A k \in (o[1] + o[2])..(a - 1) : IsSpace(s[k])
            /\ s[a] = SLASH
            /\ \A k \in (a + 1)..(b - 1) : IsSpace(s[k])
            /\ s[b] = "1" /\ s[b + 1] = "0"}

\* the first N/10 occurrence, the longer number when two start together
FirstSlash(s) ==
    CHOOSE o \in SlashNumbers(s) :
        \A o2 \in SlashNumbers(s) :
            o[1] < o2[1] \/ (o[1] = o2[1] /\ o[2] >= o2[2])

SlashValue(s, o) ==
    IF o[2] = 2 THEN 10 * DigitVal(s[o[1]]) + DigitVal(s[o[1] + 1])
    ELSE DigitVal(s[o[1]])

FirstLabelled(s) ==
    CHOOSE o \in LabelledNumbers(s) :
        \A o2 \in LabelledNumbers(s) : o[1] <= o2[1]

InRange(n) == 1 <= n /\ n <= 10

\* the paragraphs of the transcript breakdown, in order
BreakdownEntries ==
    LET heading == Paragraph(<<"<b>Transcript Breakdown:</b>">>)
        at == {k \in 1..Len(content) : content[k] = heading}
    IN  IF at = {} THEN <<>>
        ELSE SelectSeq(SubSeq(content, Min(at) + 1, Len(content)),
                       LAMBDA x : x.kind = "Paragraph")

(***************************************************************************)
(* Properties.                                                             *)
(***************************************************************************)

\* C1: for a well-formed transcript and any outcome of generate, the run of
\* generate_report never ends in an unhandled exception (it goes on to
\* doc.build).
C1_NoUnhandledException ==
    WellFormedTranscript(conversation) => pc # "raised"

\* C2: when generate raises, get_ai_summary_and_rating returns the five
\* default strings in the order of fields with the rating 7; the run does not
\* fail, the summary table is made of them and the document written holds it.
C2_FallbackDefaults ==
    generation = "raised" =>
        /\ summary_text =
             join(<<NL>>, [k \in 1..Len(fields) |->
                            <<fields[k], COLON, SP, Default(fields[k])>>])
        /\ rating = IntRating(7)
        /\ pc \in {"table", "breakdown", "build", "done"}
        /\ TableAssembled =>
             /\ Len(table_data) = 7
             /\ \A k \in 1..Len(fields) :
                  table_data[k + 1] = Row(<<fields[k]>>, <<Default(fields[k])>>)
             /\ table_data[7] =
                  Row(<<"Candidate Rating">>, <<"7", SP, SLASH, SP, "1", "0">>)
        /\ pc = "done" => \E k \in 1..Len(file) : file[k] = Table(table_data)

C2_Witness ==
    /\ generation = "raised"
    /\ pc = "done"
    /\ \E k \in 1..Len(file) : file[k].kind = "Table" /\ Len(file[k].data) = 7

\* C3: with "Candidate Rating (1-10): N" in the text the returned rating is N
\* when 1 <= N <= 10 and the default 7 otherwise; the returned rating is
\* always an integer in 1..10.
C3_RatingBoundary ==
    Parsed =>
        /\ rating.type = "int"
        /\ InRange(rating.n)
        /\ LabelledNumbers(result) # {} =>
             LET n == NumberAt(result, FirstLabelled(result)[2])
             IN  rating.n = IF InRange(n) THEN n ELSE 7

\* C4: the summary table has, after its header row, the five rows Skills,
\* Experience, Strengths, Weaknesses, Job Fit in this order and then the
\* Candidate Rating row, for every generated text.
C4_SixRows ==
    (TableAssembled \/ error = "ValueError") => TableLabels = ExpectedLabels

\* C5: a field whose label is absent from the text, or is followed by nothing
\* but whitespace up to the next line-initial label or the end of the text,
\* gets its default string.
C5_DefaultWhenAbsentOrBlank ==
    Parsed =>
        \A f \in FieldSet :
            (\/ LabelOccurrences(f, result) = {}
             \/ Blank(SpanAfter(result, FirstLabel(f, result)[2])))
            => sections[f] = <<Default(f)>>

\* C6 as stated: a transcript with a turn of empty role or empty content, or
\* with an element that is not an object with both keys, is rejected: no
\* generation call, no document.
C6_EmptyTurnRejected ==
    (/\ conversation.type = "list"
     /\ \E k \in 1..Len(conversation.msgs) :
            \/ ~HasBothKeys(conversation.msgs[k])
            \/ conversation.msgs[k].role = Str(<<>>)
            \/ conversation.msgs[k].content = Str(<<>>))
    => /\ generate_calls = 0
       /\ file = <<>>
       /\ pc \in {"start", "validate", "rejected"}

\* C6 amended: a transcript with an element that is not an object with both
\* keys is rejected as a whole: the run stops in validation, no element is
\* skipped, no generation call is made and no document is started or written.
\* A run is rejected only for such an element or for an empty or non-list
\* argument; an empty role or content does not reject it.
C6_MissingKeyRejected ==
    /\ (conversation.type = "list"
        /\ \E k \in 1..Len(conversation.msgs) : ~HasBothKeys(conversation.msgs[k]))
       => /\ generate_calls = 0
          /\ content = <<>>
          /\ file = <<>>
          /\ pc \in {"start", "validate", "rejected"}
          /\ i <= Min({k \in 1..Len(conversation.msgs) :
                            ~HasBothKeys(conversation.msgs[k])})
    /\ pc = "rejected" => ~KeysPresent(conversation)

C6_Witness ==
    /\ pc = "rejected"
    /\ Len(conversation.msgs) = 2
    /\ IsTurn(conversation.msgs[1])
    /\ ~HasBothKeys(conversation.msgs[2])
    /\ i = 2

\* C7: generate is called only after every element of the transcript passed
\* validation, and at most once; a rejected run calls it never and writes
\* nothing; the document is written only after summary and rating are there.
C7_ValidationBeforeGeneration ==
    /\ generate_calls <= 1
    /\ generate_calls > 0 =>
         /\ KeysPresent(conversation)
         /\ i > Len(conversation.msgs)
    /\ (pc = "rejected" \/ ~KeysPresent(conversation)) =>
         /\ generate_calls = 0
         /\ file = <<>>
    /\ file # <<>> =>
         /\ generate_calls = 1
         /\ summary_text # <<>>
         /\ rating # NoRating
         /\ i > Len(conversation.msgs)

C7_Witness ==
    /\ pc = "done"
    /\ file # <<>>
    /\ generate_calls = 1
    /\ Len(conversation.msgs) = 2

\* C8: for a valid transcript of N turns the transcript breakdown has N
\* entries in turn order, the k-th with the k-th role capitalized and the
\* k-th content as it is; the run never changes the transcript.
C8_BreakdownRoundTrip ==
    /\ [](pc \in {"build", "done"} =>
            /\ Len(BreakdownEntries) = Len(conversation.msgs)
            /\ \A k \in 1..Len(conversation.msgs) :
                 BreakdownEntries[k].text =
                    <<"<b>">> \o capitalize(conversation.msgs[k].role.s)
                        \o <<COLON, "</b>", SP>> \o conversation.msgs[k].content.s)
    /\ [][conversation' = conversation]_vars

C8_Witness ==
    /\ pc = "done"
    /\ Len(conversation.msgs) = 2
    /\ conversation.msgs[1] # conversation.msgs[2]
    /\ capitalize(conversation.msgs[1].role.s) # conversation.msgs[1].role.s
    /\ Len(BreakdownEntries) = 2

\* C9: when the first occurrence of a field's label is followed by content
\* and then by a line that starts with a label, the field's value is the
\* trimmed text between the label's colon and that line; the first
\* occurrence of a label is the one used, wherever the labels stand.
C9_LabelPrecedence ==
    Parsed =>
        \A f \in FieldSet :
            LabelOccurrences(f, result) # {} =>
                LET span == SpanAfter(result, FirstLabel(f, result)[2])
                IN  ~Blank(span) => sections[f] = strip(span)

C9_Witness ==
    /\ Parsed
    /\ LabelOccurrences("Skills", result) # {}
    /\ LET c == FirstLabel("Skills", result)[2]
       IN  /\ LineInitialLabels(result, c) # {}
           /\ result[Min(LineInitialLabels(result, c)) + 1] = "Experience"
           /\ ~Blank(SpanAfter(result, c))
           /\ sections["Skills"] = <<"A">>

\* C10: the labelled rating is searched first: a text with a labelled N in
\* 1..10 yields N also when an N/10 stands earlier; N/10 is used when no
\* labelled rating occurs; a text with neither yields the default 7.
C10_LabelledFirst ==
    Parsed =>
        /\ LabelledNumbers(result) # {} =>
             LET n == NumberAt(result, FirstLabelled(result)[2])
             IN  InRange(n) => rating = IntRating(n)
        /\ (LabelledNumbers(result) = {} /\ SlashNumbers(result) # {}) =>
             LET m == SlashValue(result, FirstSlash(result))
             IN  InRange(m) => rating = IntRating(m)
        /\ (LabelledNumbers(result) = {} /\ SlashNumbers(result) = {}) =>
             rating = IntRating(7)

C10_Witness ==
    /\ Parsed
    /\ LabelledNumbers(result) # {}
    /\ SlashNumbers(result) # {}
    /\ FirstSlash(result)[1] < FirstLabelled(result)[1]
    /\ InRange(SlashValue(result, FirstSlash(result)))
    /\ SlashValue(result, FirstSlash(result))
            # NumberAt(result, FirstLabelled(result)[2])
    /\ rating = IntRating(NumberAt(result, FirstLabelled(result)[2]))

====
